---- MODULE Spec2Model ----
(***************************************************************************)
(* Model of src/strings_internal.h: the StringParameters argument list     *)
(* (with its sub-views and ranges) and the StringBuilder output sink.      *)
(*                                                                         *)
(* Pointers are 0-based indices into the backing arrays of the root list;  *)
(* nullptr is -1.  A `uint` is its 32-bit pattern read as a two's          *)
(* complement integer, so num_param - offset wraps exactly when the        *)
(* unsigned subtraction does, and uints are compared with ULt/ULe.  A      *)
(* 64-bit slot is the pair <<high word, low word>>.  assert() is active: a *)
(* failed assertion aborts the program (aborted), and undefined behaviour  *)
(* (an access outside the backing array) ends the run with a               *)
(* nondeterministic outcome (ub).  StringParameters objects have automatic *)
(* storage: objs is the stack of live objects, destroyed last-in first-out.*)
(*                                                                         *)
(* hist and disciplined are history variables: how each live object was    *)
(* made and used, and whether the callers kept the nesting discipline.     *)
(* op records the most recent call, its argument and its result.           *)
(***************************************************************************)
EXTENDS Integers, Sequences, FiniteSets, TLC

VARIABLES data, type, objs, hist, disciplined, aborted, ub, op, string

vars == <<data, type, objs, hist, disciplined, aborted, ub, op, string>>

(* ------------------------------- bounds -------------------------------- *)

MaxParams == 2

MaxObjs == 2

MaxLen == 3

(* ------------------------------ constants ------------------------------ *)

nullptr == -1

NewValue == <<7, 9>>

Chars == {97, 98}

WChars == {97, 233, 8364}

(* ------------------------------- helpers ------------------------------- *)

ULt(a, b) == IF (a < 0) = (b < 0) THEN a < b ELSE b < 0

ULe(a, b) == a = b \/ ULt(a, b)

Min(a, b) == IF a < b THEN a ELSE b

InitialValue(k) == <<k, 10 + k>>

InitialTag(k) == 100 + k

Values == {InitialValue(k) : k \in 1..(MaxParams + 1)} \cup {NewValue}

Tags == {InitialTag(k) : k \in 1..(MaxParams + 1)}

InBounds(addr) == addr >= 0 /\ addr < Len(data)

ValidPointer(addr) == addr >= 0 /\ addr <= Len(data)

SeqsOver(S, n) == UNION {[1..m -> S] : m \in 0..n}

Call(name, self, arg, ret) == [name |-> name, self |-> self, arg |-> arg, ret |-> ret]

History(kind, src, at, start, n, typed) ==
    [kind |-> kind, src |-> src, at |-> at, start |-> start, n |-> n, typed |-> typed,
     reads |-> 0, subs |-> FALSE]

(* --------------------------- StringParameters -------------------------- *)

StringParameters(p, d, t, n) ==
    [parent |-> p, data |-> d, type |-> t, offset |-> 0, num_param |-> n, next_type |-> 0]

Objs == 1..Len(objs)

HasChild(i) == \E c \in Objs : objs[c].parent = i

GetDataLeftLength(o) == o.num_param

GetDataLeft(o) == o.num_param - o.offset

HasTypeInformation(o) == o.type # nullptr

SubViewAtStart(i, size) ==
    [parent |-> i, data |-> objs[i].data, type |-> objs[i].type,
     offset |-> 0, num_param |-> size, next_type |-> 0]

SubView(i, size) ==
    [parent |-> i,
     data |-> objs[i].data + objs[i].offset,
     type |-> IF objs[i].type = nullptr THEN nullptr ELSE objs[i].type + objs[i].offset,
     offset |-> 0, num_param |-> size, next_type |-> 0]

WithSubViewAdvancing(i, size) ==
    Append([objs EXCEPT ![i].offset = @ + size], SubView(i, size))

WithSubView(i, size) == Append(objs, SubView(i, size))

SubViewAssertNever(i, size) == TRUE

SubViewAssertLength(i, size) == ULe(size, objs[i].num_param)

SubViewAssert(i, size) == ULe(size, GetDataLeft(objs[i]))

RangeWithParent(i) ==
    StringParameters(i, objs[i].data + objs[i].offset,
                     IF objs[i].type = nullptr THEN nullptr ELSE objs[i].type + objs[i].offset,
                     GetDataLeft(objs[i]))

Range(i) ==
    StringParameters(nullptr, objs[i].data + objs[i].offset,
                     IF objs[i].type = nullptr THEN nullptr ELSE objs[i].type + objs[i].offset,
                     GetDataLeft(objs[i]))

DestroyedByCursor(o, os) ==
    IF o.parent # nullptr
    THEN [os EXCEPT ![o.parent].offset = @ + o.offset]
    ELSE os

Destroyed(o, os) ==
    IF o.parent # nullptr
    THEN [os EXCEPT ![o.parent].offset = @ + o.num_param]
    ELSE os

OffsetAssert(o, n) == ULt(n, o.num_param)

Slot(o, n) == o.data + n

TypeAssertRangeOnly(o, n) == ULt(n, o.num_param)

TypeAssert(o, n) == ULt(n, o.num_param) /\ HasTypeInformation(o)

TypeSlot(o, n) == o.type + n

ToInt32(v) == <<0, v[2]>>

Init ==
    /\ \E n \in 0..MaxParams :
         /\ data = [k \in 1..n |-> InitialValue(k)]
         /\ type = [k \in 1..n |-> InitialTag(k)]
         /\ \E t \in {nullptr, 0} :
              /\ objs = <<StringParameters(nullptr, 0, t, n)>>
              /\ hist = <<History("root", 0, 0, 0, n, t # nullptr)>>
    /\ disciplined = TRUE
    /\ aborted = FALSE
    /\ ub = FALSE
    /\ op = Call("init", 0, 0, 0)
    /\ string = <<>>

Abort(name, i, arg) ==
    /\ aborted' = TRUE
    /\ op' = Call(name, i, arg, 0)
    /\ UNCHANGED <<data, type, objs, hist, disciplined, ub, string>>

GetInt64Call(name, i) ==
    /\ ~aborted /\ ~ub
    /\ IF ~ULt(objs[i].offset, objs[i].num_param)
       THEN Abort(name, i, 0)
       ELSE /\ objs' = [objs EXCEPT ![i].offset = @ + 1]
            /\ hist' = [hist EXCEPT ![i].reads = @ + 1]
            /\ disciplined' = (disciplined /\ ~HasChild(i))
            /\ IF InBounds(Slot(objs[i], objs[i].offset))
               THEN /\ LET v == data[Slot(objs[i], objs[i].offset) + 1]
                       IN op' = Call(name, i, 0, IF name = "GetInt32" THEN ToInt32(v) ELSE v)
                    /\ ub' = ub
               ELSE /\ \E v \in Values : op' = Call(name, i, 0, v)
                    /\ ub' = TRUE
            /\ UNCHANGED <<data, type, aborted, string>>

GetInt64(i) == GetInt64Call("GetInt64", i)

GetInt32(i) == GetInt64Call("GetInt32", i)

MakeSubView(i, size) ==
    /\ ~aborted /\ ~ub
    /\ Len(objs) < MaxObjs
    /\ IF ~SubViewAssert(i, size)
       THEN Abort("MakeSubView", i, size)
       ELSE /\ objs' = WithSubView(i, size)
            /\ hist' = Append(hist, History("view", i, objs[i].offset,
                                            hist[i].start + objs[i].offset, size,
                                            hist[i].typed))
            /\ disciplined' = (disciplined /\ ~HasChild(i))
            /\ op' = Call("MakeSubView", i, size, 0)
            /\ ub' = ~ValidPointer(objs[i].data + objs[i].offset)
            /\ UNCHANGED <<data, type, aborted, string>>

GetRemainingParameters(i) ==
    /\ ~aborted /\ ~ub
    /\ Len(objs) < MaxObjs
    /\ objs' = Append(objs, Range(i))
    /\ hist' = Append(hist, History("range", i, objs[i].offset,
                                    hist[i].start + objs[i].offset,
                                    objs[i].num_param - objs[i].offset, hist[i].typed))
    /\ op' = Call("GetRemainingParameters", i, 0, 0)
    /\ ub' = ~ValidPointer(objs[i].data + objs[i].offset)
    /\ UNCHANGED <<data, type, disciplined, aborted, string>>

Destroy ==
    /\ ~aborted /\ ~ub
    /\ Len(objs) > 1
    /\ LET o == objs[Len(objs)]
       IN /\ objs' = Destroyed(o, SubSeq(objs, 1, Len(objs) - 1))
          /\ hist' = IF o.parent # nullptr
                     THEN [SubSeq(hist, 1, Len(hist) - 1) EXCEPT ![o.parent].subs = TRUE]
                     ELSE SubSeq(hist, 1, Len(hist) - 1)
          /\ op' = Call("Destroy", o.parent, o.num_param, o.offset)
    /\ UNCHANGED <<data, type, disciplined, aborted, ub, string>>

GetDataLeftCall(i) ==
    /\ ~aborted /\ ~ub
    /\ op' = Call("GetDataLeft", i, 0, GetDataLeft(objs[i]))
    /\ UNCHANGED <<data, type, objs, hist, disciplined, aborted, ub, string>>

GetPointerToOffset(i, n) ==
    /\ ~aborted /\ ~ub
    /\ IF ~OffsetAssert(objs[i], n)
       THEN Abort("GetPointerToOffset", i, n)
       ELSE /\ op' = Call("GetPointerToOffset", i, n, Slot(objs[i], n))
            /\ UNCHANGED <<data, type, objs, hist, disciplined, aborted, ub, string>>

HasTypeInformationCall(i) ==
    /\ ~aborted /\ ~ub
    /\ op' = Call("HasTypeInformation", i, 0, IF HasTypeInformation(objs[i]) THEN 1 ELSE 0)
    /\ UNCHANGED <<data, type, objs, hist, disciplined, aborted, ub, string>>

GetTypeAtOffset(i, n) ==
    /\ ~aborted /\ ~ub
    /\ IF ~TypeAssert(objs[i], n)
       THEN Abort("GetTypeAtOffset", i, n)
       ELSE /\ IF InBounds(TypeSlot(objs[i], n))
               THEN /\ op' = Call("GetTypeAtOffset", i, n, type[TypeSlot(objs[i], n) + 1])
                    /\ ub' = ub
               ELSE /\ \E t \in Tags : op' = Call("GetTypeAtOffset", i, n, t)
                    /\ ub' = TRUE
            /\ UNCHANGED <<data, type, objs, hist, disciplined, aborted, string>>

SetParam(i, n, v) ==
    /\ ~aborted /\ ~ub
    /\ IF ~OffsetAssert(objs[i], n)
       THEN Abort("SetParam", i, n)
       ELSE /\ IF InBounds(Slot(objs[i], n))
               THEN /\ data' = [data EXCEPT ![Slot(objs[i], n) + 1] = v]
                    /\ ub' = ub
               ELSE /\ data' \in [1..Len(data) -> {data[k] : k \in 1..Len(data)} \cup {v}]
                    /\ ub' = TRUE
            /\ op' = Call("SetParam", i, n, v)
            /\ UNCHANGED <<type, objs, hist, disciplined, aborted, string>>

GetParam(i, n) ==
    /\ ~aborted /\ ~ub
    /\ IF ~OffsetAssert(objs[i], n)
       THEN Abort("GetParam", i, n)
       ELSE /\ IF InBounds(Slot(objs[i], n))
               THEN /\ op' = Call("GetParam", i, n, data[Slot(objs[i], n) + 1])
                    /\ ub' = ub
               ELSE /\ \E v \in Values : op' = Call("GetParam", i, n, v)
                    /\ ub' = TRUE
            /\ UNCHANGED <<data, type, objs, hist, disciplined, aborted, string>>

(* The whole class: every operation of StringParameters on every live object. *)
Next ==
    \/ \E i \in Objs : GetInt64(i)
    \/ \E i \in Objs : GetInt32(i)
    \/ \E i \in Objs : \E size \in 0..MaxParams : MakeSubView(i, size)
    \/ \E i \in Objs : GetRemainingParameters(i)
    \/ Destroy
    \/ \E i \in Objs : GetDataLeftCall(i)
    \/ \E i \in Objs : \E n \in 0..MaxParams : GetPointerToOffset(i, n)
    \/ \E i \in Objs : HasTypeInformationCall(i)
    \/ \E i \in Objs : \E n \in 0..MaxParams : GetTypeAtOffset(i, n)
    \/ \E i \in Objs : \E n \in 0..MaxParams : SetParam(i, n, NewValue)
    \/ \E i \in Objs : \E n \in 0..MaxParams : GetParam(i, n)

Spec == Init /\ [][Next]_vars

(* The operations that move a cursor or make and destroy an object.  The    *)
(* indexed accessors never write offset, num_param or parent.               *)
NextCursor ==
    \/ \E i \in Objs : GetInt64(i)
    \/ \E i \in Objs : GetInt32(i)
    \/ \E i \in Objs : \E size \in 0..MaxParams : MakeSubView(i, size)
    \/ \E i \in Objs : GetRemainingParameters(i)
    \/ Destroy
    \/ \E i \in Objs : GetDataLeftCall(i)

SpecCursor == Init /\ [][NextCursor]_vars

(* The operations that make, read and destroy objects, and the two that     *)
(* report type information.  The others never write a type pointer.         *)
NextTypes ==
    \/ \E i \in Objs : GetInt64(i)
    \/ \E i \in Objs : GetInt32(i)
    \/ \E i \in Objs : \E size \in 0..MaxParams : MakeSubView(i, size)
    \/ \E i \in Objs : GetRemainingParameters(i)
    \/ Destroy
    \/ \E i \in Objs : HasTypeInformationCall(i)
    \/ \E i \in Objs : \E n \in 0..MaxParams : GetTypeAtOffset(i, n)

SpecTypes == Init /\ [][NextTypes]_vars

(* ----------------------------- StringBuilder --------------------------- *)

CurrentIndex(s) == Len(s)

ErasePosUnclamped(s, amount) == Len(s) - amount

ErasePos(s, amount) == Len(s) - Min(amount, Len(s))

Utf8Bytes(c) ==
    IF c < 128 THEN <<c>>
    ELSE IF c < 2048 THEN <<192 + (c \div 64), 128 + (c % 64)>>
    ELSE IF c < 65536 THEN <<224 + (c \div 4096), 128 + ((c \div 64) % 64), 128 + (c % 64)>>
    ELSE <<240 + (c \div 262144), 128 + ((c \div 4096) % 64), 128 + ((c \div 64) % 64),
           128 + (c % 64)>>

IndexWrittenAsEnd(s, index, c) == Append(SubSeq(s, 1, index), c)

IndexWritten(s, index, c) == [s EXCEPT ![index + 1] = c]

InitBuilder ==
    /\ data = <<>>
    /\ type = <<>>
    /\ objs = <<StringParameters(nullptr, 0, nullptr, 0)>>
    /\ hist = <<History("root", 0, 0, 0, 0, FALSE)>>
    /\ disciplined = TRUE
    /\ aborted = FALSE
    /\ ub = FALSE
    /\ op = Call("init", 0, 0, 0)
    /\ string \in SeqsOver(Chars, 1)

BuilderStep(name, arg, ret, s) ==
    /\ string' = s
    /\ op' = Call(name, 0, arg, ret)
    /\ UNCHANGED <<data, type, objs, hist, disciplined, aborted, ub>>

PushBack(c) ==
    /\ ~aborted /\ ~ub
    /\ Len(string) < MaxLen
    /\ BuilderStep("PushBack", 0, c, Append(string, c))

Assign(c) ==
    /\ ~aborted /\ ~ub
    /\ Len(string) < MaxLen
    /\ BuilderStep("Assign", 0, c, Append(string, c))

AppendStr(str) ==
    /\ ~aborted /\ ~ub
    /\ Len(string) + Len(str) <= MaxLen
    /\ BuilderStep("AppendStr", Len(str), 0, string \o str)

Utf8Encode(c) ==
    /\ ~aborted /\ ~ub
    /\ Len(string) + Len(Utf8Bytes(c)) <= MaxLen
    /\ BuilderStep("Utf8Encode", c, 0, string \o Utf8Bytes(c))

RemoveElementsFromBack(amount) ==
    /\ ~aborted /\ ~ub
    /\ LET pos == ErasePos(string, amount)
       IN IF pos < 0 \/ pos > Len(string)
          THEN Abort("RemoveElementsFromBack", 0, amount)
          ELSE BuilderStep("RemoveElementsFromBack", amount, Len(string),
                           SubSeq(string, 1, pos))

CurrentIndexCall ==
    /\ ~aborted /\ ~ub
    /\ BuilderStep("CurrentIndex", 0, CurrentIndex(string), string)

IndexWrite(index, c) ==
    /\ ~aborted /\ ~ub
    /\ IF index < Len(string)
       THEN BuilderStep("IndexWrite", index, c, IndexWritten(string, index, c))
       ELSE /\ ub' = TRUE
            /\ string' \in {string}
                 \cup {[string EXCEPT ![k] = c] : k \in 1..Len(string)}
                 \cup {Append(string, c)}
            /\ op' = Call("IndexWrite", 0, index, c)
            /\ UNCHANGED <<data, type, objs, hist, disciplined, aborted>>

IndexRead(index) ==
    /\ ~aborted /\ ~ub
    /\ IF index < Len(string)
       THEN BuilderStep("IndexRead", index, string[index + 1], string)
       ELSE IF index = Len(string)
       THEN BuilderStep("IndexRead", index, 0, string)
       ELSE /\ ub' = TRUE
            /\ \E c \in Chars \cup {0} : op' = Call("IndexRead", 0, index, c)
            /\ UNCHANGED <<data, type, objs, hist, disciplined, aborted, string>>

PreIncrement ==
    /\ ~aborted /\ ~ub
    /\ BuilderStep("PreIncrement", 0, 0, string)

PostIncrement ==
    /\ ~aborted /\ ~ub
    /\ BuilderStep("PostIncrement", 0, 0, string)

Dereference ==
    /\ ~aborted /\ ~ub
    /\ BuilderStep("Dereference", 0, 0, string)

NextBuilder ==
    \/ \E c \in Chars : PushBack(c)
    \/ \E c \in Chars : Assign(c)
    \/ \E str \in SeqsOver(Chars, 2) : AppendStr(str)
    \/ \E c \in WChars : Utf8Encode(c)
    \/ \E amount \in 0..(MaxLen + 2) : RemoveElementsFromBack(amount)
    \/ CurrentIndexCall
    \/ \E index \in 0..(MaxLen + 1) : \E c \in Chars : IndexWrite(index, c)
    \/ \E index \in 0..(MaxLen + 1) : IndexRead(index)
    \/ PreIncrement
    \/ PostIncrement
    \/ Dereference

SpecBuilder == InitBuilder /\ [][NextBuilder]_vars

(* ------------------------------ properties ----------------------------- *)

Top == Len(objs)

DestroysView == op'.name = "Destroy" /\ Len(objs') = Len(objs) - 1 /\ objs[Top].parent # nullptr

MakesSubView == op'.name = "MakeSubView" /\ ~aborted' /\ Len(objs') = Len(objs) + 1

(* C1: when a child made by MakeSubView(k) is destroyed after reading j <= k  *)
(* values, the parent's cursor advances by the requested size k, whatever j  *)
(* is; if the parent was left alone meanwhile, it ends at the cursor the     *)
(* child was made at plus k.                                                 *)
C1_DestroyAdvancesByRequestedSize ==
    [][DestroysView =>
         /\ ULe(hist[Top].reads, hist[Top].n)
         /\ objs'[objs[Top].parent].offset = objs[objs[Top].parent].offset + hist[Top].n
         /\ (disciplined => objs'[objs[Top].parent].offset = hist[Top].at + hist[Top].n)]_vars

C1_Witness ==
    /\ op.name = "Destroy" /\ op.self # nullptr
    /\ op.ret >= 1 /\ op.ret < op.arg
    /\ disciplined

(* C2 as stated: constructing a child leaves the parent's cursor alone, and  *)
(* destroying it advances the parent's cursor by the child's final cursor.   *)
C2_AdvancesByChildCursor ==
    [][/\ (MakesSubView => objs'[op'.self].offset = objs[op'.self].offset)
       /\ (DestroysView =>
             objs'[objs[Top].parent].offset
               = objs[objs[Top].parent].offset + objs[Top].offset)]_vars

(* C2 amended: constructing a child changes no existing object, and          *)
(* destroying it advances the parent's cursor by the child's length          *)
(* (num_param), not by the child's cursor, and changes nothing else.         *)
C2_AdvancesByChildLength ==
    [][/\ (MakesSubView => SubSeq(objs', 1, Len(objs)) = objs)
       /\ (DestroysView =>
             objs' = [SubSeq(objs, 1, Top - 1) EXCEPT
                        ![objs[Top].parent].offset = @ + objs[Top].num_param])]_vars

C2_Witness ==
    /\ op.name = "Destroy" /\ op.self # nullptr
    /\ op.ret = 0 /\ op.arg = MaxParams
    /\ objs[op.self].offset = MaxParams

(* C3: MakeSubView(k) with k greater than the parent's remaining count fails *)
(* and leaves every list, the values and the type tags as they were.         *)
C3_OversizedSubViewFails ==
    [][(op'.name = "MakeSubView" /\ ULt(GetDataLeft(objs[op'.self]), op'.arg)) =>
         /\ aborted'
         /\ objs' = objs
         /\ data' = data
         /\ type' = type]_vars

C3_Witness ==
    /\ aborted /\ op.name = "MakeSubView"
    /\ objs[op.self].offset >= 1
    /\ op.arg > objs[op.self].num_param - objs[op.self].offset
    /\ op.arg <= objs[op.self].num_param

(* C4: on a list made with n slots whose cursor was moved only by k           *)
(* successful NextInt32/NextInt64 calls, RemainingCount() returns n - k, and  *)
(* the call changes no state.                                                *)
C4_RemainingCount ==
    [][op'.name = "GetDataLeft" =>
         /\ UNCHANGED <<data, type, objs, hist, disciplined, aborted, ub, string>>
         /\ (~hist[op'.self].subs =>
               /\ ULe(hist[op'.self].reads, hist[op'.self].n)
               /\ op'.ret = hist[op'.self].n - hist[op'.self].reads)]_vars

C4_Witness ==
    /\ op.name = "GetDataLeft" /\ ~aborted
    /\ ~hist[op.self].subs
    /\ hist[op.self].reads >= 1
    /\ op.ret >= 1

(* C5: a range from GetRemainingParameters() covers exactly the source's      *)
(* unread slots; reading from it and destroying it never move the source's   *)
(* cursor; SetParam on slot n of the range writes the source's slot          *)
(* cursor + n (cursor: the source's cursor when the range was taken).        *)
C5_RangeCoversUnreadSlots ==
    [][/\ (op'.name = "GetRemainingParameters" =>
             /\ SubSeq(objs', 1, Len(objs)) = objs
             /\ objs'[Len(objs')].num_param = GetDataLeft(objs[op'.self])
             /\ objs'[Len(objs')].offset = 0
             /\ Slot(objs'[Len(objs')], 0) = Slot(objs[op'.self], objs[op'.self].offset))
       /\ ((op'.name \in {"GetInt64", "GetInt32"} /\ hist[op'.self].kind = "range") =>
             objs'[hist[op'.self].src].offset = objs[hist[op'.self].src].offset)
       /\ ((op'.name = "Destroy" /\ Len(objs') = Len(objs) - 1 /\ hist[Top].kind = "range") =>
             objs' = SubSeq(objs, 1, Top - 1))
       /\ ((op'.name = "SetParam" /\ ~aborted' /\ ~ub' /\ hist[op'.self].kind = "range") =>
             LET addr == Slot(objs[hist[op'.self].src], hist[op'.self].at + op'.arg)
             IN InBounds(addr) /\ data' = [data EXCEPT ![addr + 1] = op'.ret])]_vars

C5_Witness ==
    /\ op.name = "SetParam" /\ ~aborted /\ ~ub
    /\ hist[op.self].kind = "range"
    /\ hist[op.self].at >= 1
    /\ objs[hist[op.self].src].offset = hist[op.self].at
    /\ data[hist[op.self].at + op.arg + 1] = NewValue

(* C7: a list made without type tags reports HasTypeInformation() = false;   *)
(* GetTypeAtOffset(offset) fails when type information is absent or offset   *)
(* >= length, and otherwise returns the tag at index offset of the list's    *)
(* window and leaves every cursor alone.                                     *)
C7_TypeAt ==
    [][/\ (op'.name = "HasTypeInformation" =>
             (op'.ret = 1) = hist[op'.self].typed)
       /\ (op'.name = "GetTypeAtOffset" =>
             IF ~hist[op'.self].typed \/ ~ULt(op'.arg, hist[op'.self].n)
             THEN aborted' /\ objs' = objs
             ELSE /\ ~aborted'
                  /\ objs' = objs
                  /\ (~ub' => /\ InBounds(hist[op'.self].start + op'.arg)
                              /\ op'.ret = type[hist[op'.self].start + op'.arg + 1]))]_vars

C7_Witness ==
    /\ aborted /\ op.name = "GetTypeAtOffset"
    /\ ~hist[op.self].typed
    /\ op.arg < objs[op.self].num_param

(* C8: a write through operator[] at i < CurrentIndex() changes only the      *)
(* character at i, CurrentIndex() stays, and appends still add after the end.*)
C8_IndexWriteFrame ==
    [][/\ ((op'.name = "IndexWrite" /\ op'.arg < CurrentIndex(string)) =>
             /\ ~ub' /\ ~aborted'
             /\ CurrentIndex(string') = CurrentIndex(string)
             /\ string'[op'.arg + 1] = op'.ret
             /\ \A k \in 1..Len(string) : k # op'.arg + 1 => string'[k] = string[k])
       /\ (op'.name \in {"PushBack", "Assign"} => string' = Append(string, op'.ret))
       /\ (op'.name = "AppendStr" =>
             /\ Len(string') = Len(string) + op'.arg
             /\ SubSeq(string', 1, Len(string)) = string)]_vars

C8_Witness ==
    /\ op.name = "IndexWrite" /\ ~ub
    /\ op.arg = 0
    /\ Len(string) >= 2
    /\ string[1] = op.ret
    /\ string[2] # op.ret

(* C6: RemoveElementsFromBack(amount) never fails; the buffer afterwards is   *)
(* the first L - min(amount, L) characters of the buffer before, so an       *)
(* amount >= L empties it.                                                   *)
C6_TruncateClamps ==
    [][op'.name = "RemoveElementsFromBack" =>
         /\ ~aborted'
         /\ Len(string') = Len(string) - Min(op'.arg, Len(string))
         /\ \A k \in 1..Len(string') : string'[k] = string[k]
         /\ (op'.arg >= Len(string) => string' = <<>>)]_vars

C6_Witness ==
    /\ op.name = "RemoveElementsFromBack" /\ ~aborted
    /\ op.ret >= 1
    /\ op.arg > op.ret
    /\ string = <<>>

(* C9: a child made by MakeSubView(size) at parent cursor c starts with       *)
(* cursor 0 and length size, has type information exactly when the parent    *)
(* has it, and its slot i is the parent's slot c + i for values and tags:    *)
(* GetParam, SetParam and GetTypeAtOffset on the child at i act on the       *)
(* parent's slot c + i.                                                      *)
C9_SubViewAliasesParent ==
    [][/\ (MakesSubView =>
             LET c == objs'[Len(objs')]
                 p == objs[op'.self]
             IN /\ c.offset = 0
                /\ c.num_param = op'.arg
                /\ HasTypeInformation(c) = HasTypeInformation(p)
                /\ \A k \in 0..MaxParams :
                     /\ Slot(c, k) = Slot(p, p.offset + k)
                     /\ HasTypeInformation(p) => TypeSlot(c, k) = TypeSlot(p, p.offset + k))
       /\ ((op'.name \in {"GetParam", "SetParam", "GetTypeAtOffset"}
              /\ ~aborted' /\ ~ub' /\ hist[op'.self].kind = "view") =>
             LET p == objs[objs[op'.self].parent]
                 c == hist[op'.self].at
             IN /\ InBounds(Slot(p, c + op'.arg))
                /\ op'.name = "GetParam" => op'.ret = data[Slot(p, c + op'.arg) + 1]
                /\ op'.name = "SetParam" =>
                     data' = [data EXCEPT ![Slot(p, c + op'.arg) + 1] = op'.ret]
                /\ op'.name = "GetTypeAtOffset" =>
                     op'.ret = type[TypeSlot(p, c + op'.arg) + 1])]_vars

C9_Witness ==
    /\ op.name = "GetParam" /\ ~aborted /\ ~ub
    /\ hist[op.self].kind = "view"
    /\ hist[op.self].at >= 1
    /\ op.ret = InitialValue(hist[op.self].at + op.arg + 1)

(* C10: while the callers keep the nesting discipline (no list is read or     *)
(* given a second child while a child of it is alive), every list and view   *)
(* has cursor <= length, so num_param - offset never wraps.                  *)
C10_CursorWithinLength ==
    disciplined =>
      \A i \in Objs :
        /\ objs[i].offset >= 0 /\ objs[i].num_param >= 0
        /\ objs[i].offset <= objs[i].num_param
        /\ GetDataLeft(objs[i]) >= 0

C10_Witness ==
    /\ disciplined /\ ~aborted
    /\ op.name = "Destroy" /\ op.self # nullptr
    /\ op.arg >= 1
    /\ objs[op.self].offset = objs[op.self].num_param

====
